---------------------------- MODULE Spec2Model ----------------------------
(***************************************************************************)
(* The users -> posts -> comments pipeline of src/index.js (flow$ and its  *)
(* subscriber), as a state machine.                                        *)
(*                                                                         *)
(* JavaScript runs every callback to completion, so one action is one      *)
(* callback of the event loop: the settling of a fetch() promise or of a   *)
(* res.json() promise, together with everything the RxJS chain does        *)
(* synchronously in response (taps, projections, the next request, the     *)
(* recovery step, the subscriber, finalize).  What the console prints and  *)
(* what the subscriber receives are recorded, in order, in `trace`.        *)
(***************************************************************************)
EXTENDS Integers, Sequences, FiniteSets, TLC

\* Bounds of the model.
MaxLen == 2            \* longest array an endpoint answers with
MaxUpstreamEmits == 2  \* emissions of the re-emitting upstream (SpecReemit)

\* from(promise) emits one value and completes (line 17).
PromiseEmits == 1

Ids == {1, 2}
Statuses == {200, 404, 500}

VARIABLES
  requests,    \* every fetch() issued so far, in order of issue
  trace,       \* console lines and subscriber deliveries, in order
  delivered,   \* the values handed to the subscriber's next callback
  unhandled,   \* error notifications that reached the subscriber
  subscribed,  \* flow$.subscribe(...) has run
  closed,      \* the chain has completed or failed: finalize has run
  srcDone,     \* the users source has completed
  emitsLeft,   \* values the users source may still emit
  emitted,     \* values the users source has emitted
  maxItems     \* the longest array the server answers with in this run

vars == <<requests, trace, delivered, unhandled, subscribed, closed,
          srcDone, emitsLeft, emitted, maxItems>>

-----------------------------------------------------------------------------
\* Values

NoUser == [id |-> 0, name |-> "", email |-> ""]
NoPost == [id |-> 0, title |-> ""]

RawUsers    == [id : Ids, name : {"Leanne"}, email : {"a@b.com"}, phone : {"555"}]
RawPosts    == [id : Ids, title : {"T1"}, body : {"text"}]
RawComments == [id : Ids, name : {"C"}, email : {"c@d.com"}, body : {"text"}]

SeqsUpTo(S, n) == UNION {[1..k -> S] : k \in 0..n}

\* A decoded JSON payload: an array of objects, or something that is no array.
NotArray == [isArray |-> FALSE, items |-> <<>>]
Arrays(S) == {[isArray |-> TRUE, items |-> q] : q \in SeqsUpTo(S, maxItems)}

UsersUrl == [ep |-> "users", id |-> 0]
PostsUrl(userId) == [ep |-> "posts", id |-> userId]
CommentsUrl(postId) == [ep |-> "comments", id |-> postId]

\* What the server may answer on a URL.
BodiesFor(url) ==
  {NotArray} \cup
  CASE url.ep = "users" -> Arrays(RawUsers)
    [] url.ep = "posts" -> Arrays(RawPosts)
    [] OTHER            -> Arrays(RawComments)

\* Response.ok
Ok(status) == status >= 200 /\ status <= 299

\* Error messages.
HttpError(status, url) == [kind |-> "http", status |-> status, url |-> url]
PlainError(kind) == [kind |-> kind, status |-> 0, url |-> UsersUrl]
NoUsersError == PlainError("noUsers")
NoPostsError == PlainError("noPosts")
TransportError == PlainError("transport")
DecodeError == PlainError("decode")
NotArrayError == PlainError("typeError")

NullValue == [isNull |-> TRUE, user |-> NoUser, post |-> NoPost, comments |-> <<>>]

-----------------------------------------------------------------------------
\* The state as one record, so that the synchronous chain is a composition
\* of functions from state to state.  `cause` is the request whose response
\* is being handled (0: none).

Cur(i) ==
  [requests |-> requests, trace |-> trace, delivered |-> delivered,
   unhandled |-> unhandled, closed |-> closed, srcDone |-> srcDone,
   emitsLeft |-> emitsLeft, emitted |-> emitted, cause |-> i]

Commit(s) ==
  /\ requests' = s.requests
  /\ trace' = s.trace
  /\ delivered' = s.delivered
  /\ unhandled' = s.unhandled
  /\ closed' = s.closed
  /\ srcDone' = s.srcDone
  /\ emitsLeft' = s.emitsLeft
  /\ emitted' = s.emitted
  /\ UNCHANGED <<subscribed, maxItems>>

Log(s, tag, arg) ==
  [s EXCEPT !.trace = Append(@, [tag |-> tag, req |-> s.cause,
                                  gen |-> s.emitted, arg |-> arg])]


-----------------------------------------------------------------------------
\* Subscriptions

\* Request i leaves the network: its promise has settled.
Settle(s, i, status) ==
  [s EXCEPT !.requests[i].phase = "settled", !.requests[i].status = status]

\* The inner observable of request i has completed (from(promise) completes
\* right after its value).
InnerComplete(s, i) ==
  [s EXCEPT !.requests[i].sub =
     IF @ = "active" THEN "completed" ELSE @]

\* Mutant: the inner subscriptions are kept, as mergeMap keeps them.
SwitchKeepsInner(s, ep) == s

\* switchMap drops its current inner subscription before it subscribes to
\* the next one.  from(promise) has nothing to cancel: the fetch goes on.
SwitchUnsubscribe(s, ep) ==
  [s EXCEPT !.requests =
     [i \in DOMAIN @ |->
        IF @[i].url.ep = ep /\ @[i].sub = "active"
        THEN [@[i] EXCEPT !.sub = "unsubscribed"]
        ELSE @[i]]]

\* An error or a completion tears the whole chain down.
Teardown(s) ==
  [s EXCEPT !.requests =
     [i \in DOMAIN @ |->
        IF @[i].sub = "active" THEN [@[i] EXCEPT !.sub = "torndown"] ELSE @[i]]]

\* httpGetJson(url): fetch(url) is called at once, when the observable is
\* built.  `user` and `post` are what the callbacks of this request close
\* over; `gen` numbers the source value the request derives from.
HttpGetJson(s, url, user, post) ==
  Log([s EXCEPT !.requests =
         Append(@, [url |-> url, phase |-> "fetching", sub |-> "active",
                    status |-> 0, body |-> NotArray, user |-> user,
                    post |-> post,
                    gen |-> IF url.ep = "comments" /\ s.cause # 0
                            THEN s.requests[s.cause].gen ELSE s.emitted])],
      "request", url)

GetUserPosts(s, user) == HttpGetJson(s, PostsUrl(user.id), user, NoPost)

\* Mutant: the comments URL is built from the user's id.
GetPostCommentsByUser(s, user, post) ==
  HttpGetJson(s, CommentsUrl(user.id), user, post)

GetPostComments(s, user, post) == HttpGetJson(s, CommentsUrl(post.id), user, post)

-----------------------------------------------------------------------------
\* Projections

ProjectUsers(raw) ==
  [k \in DOMAIN raw |->
     [id |-> raw[k].id, name |-> raw[k].name, email |-> raw[k].email]]

ProjectPosts(raw) ==
  [k \in DOMAIN raw |-> [id |-> raw[k].id, title |-> raw[k].title]]

\* Mutant: the comments come out in reverse order.
ProjectCommentsReversed(raw) ==
  [k \in DOMAIN raw |->
     [id |-> raw[Len(raw) + 1 - k].id, name |-> raw[Len(raw) + 1 - k].name,
      email |-> raw[Len(raw) + 1 - k].email]]

ProjectComments(raw) ==
  [k \in DOMAIN raw |->
     [id |-> raw[k].id, name |-> raw[k].name, email |-> raw[k].email]]

-----------------------------------------------------------------------------
\* The end of the chain: subscriber, finalize, catchError

\* Mutant: the subscriber prints the summary of null as well.
SubscriberPrintsNull(s, result) ==
  Log([Log(s, "next", result) EXCEPT !.delivered = Append(@, result)],
      "summary",
      [user |-> result.user, post |-> result.post,
       count |-> Len(result.comments),
       first |-> IF Len(result.comments) > 0
                 THEN result.comments[1].id ELSE 0])

\* The subscriber's next callback.
Subscriber(s, result) ==
  LET s1 == [Log(s, "next", result) EXCEPT !.delivered = Append(@, result)]
  IN  IF result.isNull
      THEN s1
      ELSE Log(s1, "summary",
               [user |-> result.user, post |-> result.post,
                count |-> Len(result.comments),
                first |-> IF Len(result.comments) > 0
                          THEN result.comments[1].id ELSE 0])

\* finalize's callback.
FinalizeHook(s) == Log(s, "finalize", 0)

\* The chain ends: nothing is subscribed any more and finalize runs.
Complete(s) ==
  IF s.closed THEN s ELSE FinalizeHook([Teardown(s) EXCEPT !.closed = TRUE])

\* Mutant: finalize sits above catchError in the pipe, so it runs when the
\* failed source is dropped, before of(null) emits.
CatchErrorAfterFinalize(s, err) ==
  IF s.closed THEN s
  ELSE Subscriber(Complete(Log(Teardown(s), "error", err)), NullValue)

\* Mutant: the handler reports the message and throws the error again.
CatchErrorRethrows(s, err) ==
  IF s.closed THEN s
  ELSE Complete([Log(Teardown(s), "error", err) EXCEPT !.unhandled = @ + 1])

\* Mutant: the handler fetches the failed URL once more before it gives up.
CatchErrorRefetches(s, err) ==
  IF s.closed THEN s
  ELSE LET s1 == IF s.cause = 0 THEN Teardown(s)
                 ELSE HttpGetJson(Teardown(s), s.requests[s.cause].url,
                                  NoUser, NoPost)
       IN  Complete(Subscriber(Log(s1, "error", err), NullValue))

\* catchError: report the message, answer of(null), which emits null and
\* completes.
CatchError(s, err) ==
  IF s.closed THEN s
  ELSE Complete(Subscriber(Log(Teardown(s), "error", err), NullValue))

\* The chain completes when the source is done and no inner is subscribed.
Idle(s) ==
  s.srcDone /\ \A i \in DOMAIN s.requests : s.requests[i].sub # "active"

CompleteIfIdle(s) == IF Idle(s) THEN Complete(s) ELSE s

-----------------------------------------------------------------------------
\* The chain, stage by stage

\* Mutant: a user without posts yields a result without a post.
SecondSwitchMapPartial(s, user, posts) ==
  LET s0 == SwitchUnsubscribe(s, "comments")
  IN  IF Len(posts) = 0
      THEN Subscriber(s0, [isNull |-> FALSE, user |-> user, post |-> NoPost,
                           comments |-> <<>>])
      ELSE GetPostComments(Log(s0, "postSelected", posts[1]), user, posts[1])

\* Mutant: the comments request is built before the posts are looked at.
SecondSwitchMapEager(s, user, posts) ==
  LET s0 == SwitchUnsubscribe(s, "comments")
      first == IF Len(posts) = 0 THEN NoPost ELSE posts[1]
      s1 == GetPostComments(s0, user, first)
  IN  IF Len(posts) = 0
      THEN CatchError(s1, NoPostsError)
      ELSE Log(s1, "postSelected", first)

\* Second switchMap: the first post, then the comments request.
SecondSwitchMap(s, user, posts) ==
  LET s0 == SwitchUnsubscribe(s, "comments")
  IN  IF Len(posts) = 0
      THEN CatchError(s0, NoPostsError)
      ELSE GetPostComments(Log(s0, "postSelected", posts[1]), user, posts[1])

\* tap: the number of posts.
TapPosts(s, posts) == Log(s, "postCount", Len(posts))

\* First switchMap: the posts request of the selected user.
FirstSwitchMap(s, user) == GetUserPosts(SwitchUnsubscribe(s, "posts"), user)

\* tap: the number of users.
TapUsers(s, users) == Log(s, "userCount", Len(users))

\* Mutant: the users tap takes the first element off the array it is shown.
FromUsersTapShifts(s, users) ==
  LET s1 == TapUsers(s, users)
      left == IF Len(users) = 0 THEN users ELSE Tail(users)
  IN  IF Len(left) = 0
      THEN CatchError(s1, NoUsersError)
      ELSE FirstSwitchMap(Log(s1, "userSelected", left[1]), left[1])

\* Mutant: the selected-user tap does not test the user.
FromUsersNoTest(s, users) ==
  LET s1 == TapUsers(s, users)
      user == IF Len(users) = 0 THEN NoUser ELSE users[1]
  IN  FirstSwitchMap(Log(s1, "userSelected", user), user)

\* Mutant: the last user is selected.
FromUsersSelectsLast(s, users) ==
  LET s1 == TapUsers(s, users)
  IN  IF Len(users) = 0
      THEN CatchError(s1, NoUsersError)
      ELSE FirstSwitchMap(Log(s1, "userSelected", users[Len(users)]),
                          users[Len(users)])

\* Mutant: the tap tests the array, not the user, and fails with a
\* TypeError when it prints the missing user.
FromUsersTestsArray(s, users) ==
  LET s1 == TapUsers(s, users)
  IN  IF Len(users) = 0
      THEN CatchError(s1, NotArrayError)
      ELSE FirstSwitchMap(Log(s1, "userSelected", users[1]), users[1])

\* A users array enters the chain: tap, users[0], tap (which throws when
\* there is no user), first switchMap.
FromUsers(s, users) ==
  LET s1 == TapUsers(s, users)
  IN  IF Len(users) = 0
      THEN CatchError(s1, NoUsersError)
      ELSE FirstSwitchMap(Log(s1, "userSelected", users[1]), users[1])

\* getUsers' map over the decoded payload.
OnUsersJson(s, body) ==
  IF ~body.isArray
  THEN CatchError(s, NotArrayError)
  ELSE FromUsers(s, ProjectUsers(body.items))

\* Mutant: the posts tap sits below the second switchMap.
OnPostsJsonTapsLast(s, i, body) ==
  IF ~body.isArray
  THEN CatchError(s, NotArrayError)
  ELSE LET posts == ProjectPosts(body.items)
           s1 == SecondSwitchMap(s, s.requests[i].user, posts)
       IN  IF s1.closed THEN s1 ELSE TapPosts(s1, posts)

\* The posts payload of request i: projection, tap, second switchMap.
OnPostsJson(s, i, body) ==
  IF ~body.isArray
  THEN CatchError(s, NotArrayError)
  ELSE LET posts == ProjectPosts(body.items)
       IN  SecondSwitchMap(TapPosts(s, posts), s.requests[i].user, posts)

\* Mutant: a comments payload that is no array counts as no comments.
OnCommentsJsonLenient(s, i, body) ==
  Subscriber(s, [isNull |-> FALSE,
                 user |-> s.requests[i].user,
                 post |-> s.requests[i].post,
                 comments |-> IF body.isArray
                              THEN ProjectComments(body.items) ELSE <<>>])

\* Mutant: a post without comments is an error, as a user without posts is.
OnCommentsJsonEmptyFails(s, i, body) ==
  IF ~body.isArray
  THEN CatchError(s, NotArrayError)
  ELSE IF body.items = <<>>
  THEN CatchError(s, PlainError("noComments"))
  ELSE Subscriber(s, [isNull |-> FALSE,
                      user |-> s.requests[i].user,
                      post |-> s.requests[i].post,
                      comments |-> ProjectComments(body.items)])

\* The comments payload of request i: the result, handed to the subscriber.
OnCommentsJson(s, i, body) ==
  IF ~body.isArray
  THEN CatchError(s, NotArrayError)
  ELSE Subscriber(s, [isNull |-> FALSE,
                      user |-> s.requests[i].user,
                      post |-> s.requests[i].post,
                      comments |-> ProjectComments(body.items)])

\* Mutant: the source stays open after its value, as an interval or a
\* websocket would.
SourceEmitStaysOpen(s) ==
  [s EXCEPT !.emitted = @ + 1, !.emitsLeft = @ - 1]

\* The users source emits: it completes when it has no value left.
SourceEmit(s) ==
  [s EXCEPT !.emitted = @ + 1, !.emitsLeft = @ - 1,
            !.srcDone = (s.emitsLeft = 1)]

\* A decoded payload arrives for the subscribed request i.
OnJson(s, i, body) ==
  LET ep == s.requests[i].url.ep
      s1 == CASE ep = "users" -> OnUsersJson(SourceEmit(s), body)
              [] ep = "posts" -> OnPostsJson(s, i, body)
              [] OTHER        -> OnCommentsJson(s, i, body)
  IN  IF s1.closed THEN s1
      ELSE CompleteIfIdle(
             IF ep = "users" /\ s1.emitsLeft > 0 THEN s1 ELSE InnerComplete(s1, i))

\* Mutant: res.ok is not looked at.
OnResponseAnyStatus(s, i, status) ==
  [s EXCEPT !.requests[i].phase = "decoding", !.requests[i].status = status]

\* httpGetJson's switchMap over the Response of request i.
OnResponse(s, i, status) ==
  IF Ok(status)
  THEN [s EXCEPT !.requests[i].phase = "decoding", !.requests[i].status = status]
  ELSE CatchError(Settle(s, i, status), HttpError(status, s.requests[i].url))

\* Mutant: a settled promise is handed on whether or not anyone listens.
ListeningAlways(s, i) == ~s.closed

\* from(promise) hands a settled promise on only while it is subscribed.
Listening(s, i) == s.requests[i].sub = "active" /\ ~s.closed

-----------------------------------------------------------------------------
\* Initial states and actions

\* Mutant: the posts of user 1 are requested while flow$ is built.
InitWithEagerPosts(n, len) ==
  LET s0 == HttpGetJson([requests |-> <<>>, trace |-> <<>>, emitted |-> 0,
                         cause |-> 0],
                        UsersUrl, NoUser, NoPost)
      s == HttpGetJson(s0, PostsUrl(1), NoUser, NoPost)
  IN  /\ requests = s.requests
      /\ trace = s.trace
      /\ delivered = <<>>
      /\ unhandled = 0
      /\ subscribed = FALSE
      /\ closed = FALSE
      /\ srcDone = FALSE
      /\ emitsLeft = n
      /\ emitted = 0
      /\ maxItems = len

\* getUsers() runs while flow$ is built, so the users fetch is in flight
\* before anything subscribes.
InitWith(n, len) ==
  LET s == HttpGetJson([requests |-> <<>>, trace |-> <<>>, emitted |-> 0,
                        cause |-> 0],
                       UsersUrl, NoUser, NoPost)
  IN  /\ requests = s.requests
      /\ trace = s.trace
      /\ delivered = <<>>
      /\ unhandled = 0
      /\ subscribed = FALSE
      /\ closed = FALSE
      /\ srcDone = FALSE
      /\ emitsLeft = n
      /\ emitted = 0
      /\ maxItems = len

Init == InitWith(PromiseEmits, MaxLen)

\* flow$.subscribe(...): in the same turn of the event loop as the build,
\* so no response is handled before it.
Subscribe ==
  /\ ~subscribed
  /\ subscribed' = TRUE
  /\ UNCHANGED <<requests, trace, delivered, unhandled, closed, srcDone,
                 emitsLeft, emitted, maxItems>>

\* fetch() rejects: the transport failed.
FetchReject(i) ==
  /\ subscribed
  /\ requests[i].phase = "fetching"
  /\ LET s == Settle(Cur(i), i, 0)
     IN  Commit(IF Listening(s, i) THEN CatchError(s, TransportError) ELSE s)

\* fetch() resolves with a Response.  Nobody reads the response of a request
\* that is no longer subscribed.
FetchRespond(i, status) ==
  /\ subscribed
  /\ requests[i].phase = "fetching"
  /\ LET s == Cur(i)
     IN  Commit(IF Listening(s, i)
                THEN OnResponse(s, i, status)
                ELSE Settle(s, i, status))

\* res.json() rejects: the payload is no JSON.
JsonReject(i) ==
  /\ requests[i].phase = "decoding"
  /\ LET s == Settle(Cur(i), i, requests[i].status)
     IN  Commit(IF Listening(s, i) THEN CatchError(s, DecodeError) ELSE s)

\* res.json() resolves with the decoded payload.
JsonResolve(i, body) ==
  /\ requests[i].phase = "decoding"
  /\ LET s == [Settle(Cur(i), i, requests[i].status)
                 EXCEPT !.requests[i].body = body]
     IN  Commit(IF Listening(s, i) THEN OnJson(s, i, body) ELSE s)

Next ==
  \/ Subscribe
  \/ \E i \in DOMAIN requests : FetchReject(i)
  \/ \E i \in DOMAIN requests : \E status \in Statuses : FetchRespond(i, status)
  \/ \E i \in DOMAIN requests : JsonReject(i)
  \/ \E i \in DOMAIN requests : \E body \in BodiesFor(requests[i].url) :
       JsonResolve(i, body)

Spec == Init /\ [][Next]_vars

\* Every issued request is answered or fails in the end, and the subscribe
\* call runs: a step that stays possible is taken.
LiveSpec == Spec /\ WF_vars(Next)

-----------------------------------------------------------------------------
\* A users source that emits more than once.  The program's own source is a
\* promise and emits once; the switchMap discipline is stated for any
\* upstream, so SpecReemit lets the source go on after its first value.
\* Its payloads hold at most one element: the switchMaps read only whether
\* an array is empty and what its first element is.

InitReemit == InitWith(MaxUpstreamEmits, 1)

\* The source emits another users payload.
UpstreamReemit(body) ==
  /\ subscribed /\ ~closed /\ ~srcDone
  /\ emitted >= 1 /\ emitsLeft > 0
  /\ LET s  == OnUsersJson(SourceEmit(Cur(0)), body)
     IN  Commit(IF s.closed THEN s
                ELSE CompleteIfIdle(IF s.srcDone THEN InnerComplete(s, 1) ELSE s))

\* The source completes without another value.
UpstreamComplete ==
  /\ subscribed /\ ~closed /\ ~srcDone
  /\ emitted >= 1
  /\ Commit(CompleteIfIdle(InnerComplete([Cur(0) EXCEPT !.srcDone = TRUE], 1)))

NextReemit ==
  \/ Next
  \/ \E body \in BodiesFor(UsersUrl) : UpstreamReemit(body)
  \/ UpstreamComplete

SpecReemit == InitReemit /\ [][NextReemit]_vars

-----------------------------------------------------------------------------
\* Reading the trace and the request log

At(tag) == {p \in DOMAIN trace : trace[p].tag = tag}
Count(tag) == Cardinality(At(tag))
ReportedErrors == {trace[p].arg : p \in At("error")}
Results == {k \in DOMAIN delivered : ~delivered[k].isNull}
EmptyOutcome == delivered = <<NullValue>>

Of(ep) == {i \in DOMAIN requests : requests[i].url.ep = ep}
Settled(i) == requests[i].phase = "settled"
Answered(i) == Settled(i) /\ requests[i].body.isArray
AnsweredEmpty(i) == Answered(i) /\ requests[i].body.items = <<>>
HttpFailed(i) == Settled(i) /\ requests[i].status # 0 /\ ~Ok(requests[i].status)
TransportFailed(i) == Settled(i) /\ requests[i].status = 0
Undecodable(i) ==
  Settled(i) /\ Ok(requests[i].status) /\ ~requests[i].body.isArray

\* The error a settled request stands for, if any.
Failed(i) ==
  \/ HttpFailed(i) \/ TransportFailed(i) \/ Undecodable(i)
  \/ (AnsweredEmpty(i) /\ requests[i].url.ep \in {"users", "posts"})

-----------------------------------------------------------------------------
\* C1: finalize is printed at most once, exactly once when the run has
\* ended, it is the last line of the run, and the outcome (the result or
\* null) was handed to the subscriber before it.
C1_FinalizeOnce ==
  /\ Count("finalize") <= 1
  /\ closed <=> Count("finalize") = 1
  /\ \A p \in At("finalize") :
       /\ p = Len(trace)
       /\ \E q \in At("next") : q < p
  /\ Count("next") >= 1 => closed

\* A run that failed in the transport has finalized.
C1_Witness ==
  /\ closed
  /\ TransportError \in ReportedErrors
  /\ Count("finalize") = 1

\* C2: whenever a request has failed or a collection was empty, the error
\* was reported exactly once, the subscriber got null and nothing else, the
\* run has ended, and no error notification ever reaches the subscriber.
C2_ErrorsRecovered ==
  /\ unhandled = 0
  /\ Count("error") <= 1
  /\ (\E i \in DOMAIN requests : Failed(i)) =>
       /\ Count("error") = 1
       /\ EmptyOutcome
       /\ closed
  /\ Count("error") = 1 => EmptyOutcome /\ closed

\* A payload that could not be decoded was reported and recovered.
C2_Witness ==
  /\ closed
  /\ DecodeError \in ReportedErrors
  /\ \E i \in Of("comments") : Undecodable(i)

\* C3: the subscriber gets at most one result, and a result holds a user, a
\* post and a sequence of comments, each of the projected shape.
C3_AtMostOneWholeResult ==
  /\ Cardinality(Results) <= 1
  /\ \A k \in Results :
       /\ delivered[k].user \in [id : Ids, name : {"Leanne"}, email : {"a@b.com"}]
       /\ delivered[k].post \in [id : Ids, title : {"T1"}]
       /\ delivered[k].comments \in
            SeqsUpTo([id : Ids, name : {"C"}, email : {"c@d.com"}], maxItems)

\* A result with two comments was delivered.
C3_Witness ==
  \E k \in Results : Len(delivered[k].comments) = 2

\* C4: when the users endpoint answers with an empty array, the subscriber
\* gets null, the one error reported is the no-users error, and finalize
\* has run once.
C4_EmptyUsers ==
  (\E i \in Of("users") : AnsweredEmpty(i)) =>
    /\ EmptyOutcome
    /\ ReportedErrors = {NoUsersError}
    /\ Count("error") = 1
    /\ Count("finalize") = 1

\* The users endpoint has answered with an empty array.
C4_Witness ==
  /\ \E i \in Of("users") : AnsweredEmpty(i)
  /\ closed

\* C5: when the posts endpoint answers with an empty array, the subscriber
\* gets null, the one error reported is the no-posts error, and no comments
\* request exists.
C5_EmptyPosts ==
  (\E i \in Of("posts") : AnsweredEmpty(i)) =>
    /\ EmptyOutcome
    /\ ReportedErrors = {NoPostsError}
    /\ Count("error") = 1
    /\ Of("comments") = {}

\* The posts endpoint has answered with an empty array.
C5_Witness ==
  /\ \E i \in Of("posts") : AnsweredEmpty(i)
  /\ closed

\* C6: when an endpoint answers with a status outside 200..299, the
\* subscriber gets null, the one error reported carries that status and that
\* URL, and the failed request is the last one the run issues.
C6_HttpStatus ==
  \A i \in DOMAIN requests :
    HttpFailed(i) =>
      /\ EmptyOutcome
      /\ ReportedErrors = {HttpError(requests[i].status, requests[i].url)}
      /\ Count("error") = 1
      /\ i = Len(requests)

\* The posts endpoint has answered 404 and the run has ended.
C6_Witness ==
  /\ \E i \in Of("posts") : HttpFailed(i) /\ requests[i].status = 404
  /\ closed

\* C7: a posts request is issued only after the users count was printed
\* (the users stage has produced its value), a comments request only after
\* the posts count was printed, and the requests are issued in the order
\* users, posts, comments.
C7_StageOrder ==
  /\ \A p \in At("request") :
       /\ trace[p].arg.ep = "posts" => \E q \in At("userCount") : q < p
       /\ trace[p].arg.ep = "comments" => \E q \in At("postCount") : q < p
  /\ \A i \in Of("posts") : \E j \in Of("users") : j < i /\ Answered(j)
  /\ \A i \in Of("comments") : \E j \in Of("posts") : j < i /\ Answered(j)

\* All three requests have been issued.
C7_Witness ==
  Of("posts") # {} /\ Of("comments") # {}

\* C8 as stated: no stage ever has two requests on the network.
C8_OneOutstandingPerStage ==
  \A ep \in {"users", "posts", "comments"} :
    Cardinality({i \in Of(ep) : ~Settled(i)}) <= 1

\* C8, amended: a request is unsubscribed as soon as a newer request of its
\* stage is issued, so no stage ever has two subscribed requests; the fetch
\* of the unsubscribed request is not aborted.
C8_OneSubscribedPerStage ==
  /\ \A ep \in {"users", "posts", "comments"} :
       Cardinality({i \in Of(ep) : requests[i].sub = "active"}) <= 1
  /\ \A i, j \in DOMAIN requests :
       (i < j /\ requests[i].url.ep = requests[j].url.ep) =>
         requests[i].sub # "active"

\* Two posts requests are on the network, the older one unsubscribed.
C8_Witness ==
  \E i, j \in Of("posts") :
    /\ i < j
    /\ ~Settled(i) /\ requests[i].sub = "unsubscribed"
    /\ ~Settled(j) /\ requests[j].sub = "active"

\* The requests issued before position p of the trace are 1..IssuedBefore(p).
IssuedBefore(p) == Cardinality({q \in At("request") : q < p})

\* Request i has been replaced by a newer request of its stage before
\* position p of the trace.
SupersededAt(i, p) ==
  \E j \in (i + 1)..IssuedBefore(p) : requests[j].url.ep = requests[i].url.ep

\* C9 as stated: nothing the chain prints, requests or delivers is caused by
\* the response of a posts or comments request that derives from a source
\* value which a later source value has followed.
C9_NoStaleResponse ==
  \A p \in DOMAIN trace :
    (trace[p].req # 0 /\ requests[trace[p].req].url.ep # "users") =>
      requests[trace[p].req].gen = trace[p].gen

\* C9, amended: nothing the chain prints, requests or delivers is caused by
\* the response of a request that had already been replaced by a newer
\* request of its own stage; a comments request stays subscribed until the
\* next posts payload arrives.
C9_NoSupersededResponse ==
  \A p \in DOMAIN trace :
    trace[p].req # 0 => ~SupersededAt(trace[p].req, p)

\* A replaced posts request was answered with an array, which was dropped,
\* and the newer request led to a delivered result.
C9_Witness ==
  /\ \E i \in Of("posts") : requests[i].sub = "unsubscribed" /\ Answered(i)
  /\ Results # {}

\* C10: the post of a delivered result is the first post of the payload
\* answered on the posts URL of the result's user, and its comments are the
\* payload answered on the comments URL of that post.
C10_ResultConsistent ==
  \A k \in Results :
    /\ \E i \in Of("posts") :
         /\ requests[i].url = PostsUrl(delivered[k].user.id)
         /\ Answered(i) /\ ~AnsweredEmpty(i)
         /\ ProjectPosts(requests[i].body.items)[1] = delivered[k].post
    /\ \E j \in Of("comments") :
         /\ requests[j].url = CommentsUrl(delivered[k].post.id)
         /\ Answered(j)
         /\ ProjectComments(requests[j].body.items) = delivered[k].comments

\* A result was delivered whose user and post have different ids.
C10_Witness ==
  \E k \in Results :
    /\ delivered[k].user.id # delivered[k].post.id
    /\ Len(delivered[k].comments) > 0

-----------------------------------------------------------------------------
\* The console lines of the run, in order, by kind.
IsNotification(e) == e.tag \notin {"request", "next"}
Notifications ==
  LET lines == SelectSeq(trace, IsNotification)
  IN  [k \in DOMAIN lines |-> lines[k].tag]

Checkpoints == <<"userCount", "userSelected", "postCount", "postSelected">>
IsPrefix(a, b) == Len(a) <= Len(b) /\ a = SubSeq(b, 1, Len(a))

\* The complete runs: all checkpoints and the summary, or some checkpoints
\* and the error message, each followed by finalize.
CompleteRuns ==
  {Checkpoints \o <<"summary", "finalize">>} \cup
  {SubSeq(Checkpoints, 1, k) \o <<"error", "finalize">> : k \in 0..4}

\* C11: the console lines of a run are, at every moment, the beginning of:
\* the four checkpoints in their order, the summary, finalize; or a prefix
\* of the checkpoints, the error message, finalize.  A run that has ended
\* has printed one of these sequences in full, so finalize is its last line.
C11_NotificationOrder ==
  /\ \E run \in CompleteRuns : IsPrefix(Notifications, run)
  /\ closed => Notifications \in CompleteRuns

\* The comments request failed: four checkpoints, the error, finalize.
C11_Witness ==
  Notifications = Checkpoints \o <<"error", "finalize">>

\* C12: under LiveSpec every run ends: the chain closes, having handed the
\* subscriber exactly one value, the result or null.
C12_RunCompletes == <>(closed /\ Len(delivered) = 1)

\* A run has ended after all three requests were answered.
C12_Witness ==
  /\ closed
  /\ Len(delivered) = 1
  /\ Len(requests) = 3
  /\ \A i \in DOMAIN requests : Settled(i)

-----------------------------------------------------------------------------
\* The fields the chain keeps of a raw user, post and comment.
UserOf(raw) == [id |-> raw.id, name |-> raw.name, email |-> raw.email]
PostOf(raw) == [id |-> raw.id, title |-> raw.title]
CommentOf(raw) == [id |-> raw.id, name |-> raw.name, email |-> raw.email]

\* C13: when the users and the posts endpoint answered with nonempty arrays
\* and the comments endpoint with an array, the subscriber got exactly one
\* value: the first user, the first post and every comment in order, each
\* reduced to its kept fields.
C13_SuccessResult ==
  \A u \in Of("users") : \A p \in Of("posts") : \A c \in Of("comments") :
    (/\ Answered(u) /\ ~AnsweredEmpty(u)
     /\ Answered(p) /\ ~AnsweredEmpty(p)
     /\ Answered(c)) =>
      delivered =
        << [isNull |-> FALSE,
            user |-> UserOf(requests[u].body.items[1]),
            post |-> PostOf(requests[p].body.items[1]),
            comments |-> [k \in DOMAIN requests[c].body.items |->
                            CommentOf(requests[c].body.items[k])]] >>

\* A result built from two users, two posts and two different comments.
C13_Witness ==
  /\ Results # {}
  /\ \E u \in Of("users") : \E p \in Of("posts") : \E c \in Of("comments") :
       /\ Len(requests[u].body.items) = 2
       /\ requests[u].body.items[1].id # requests[u].body.items[2].id
       /\ Len(requests[p].body.items) = 2
       /\ requests[p].body.items[1].id # requests[p].body.items[2].id
       /\ Len(requests[c].body.items) = 2
       /\ requests[c].body.items[1].id # requests[c].body.items[2].id

\* C14: what a run selects is a function of what the endpoints answered:
\* the user printed as selected is element 0 of the users payload, the posts
\* request is made for that user, the post printed as selected is element 0
\* of the posts payload and the comments request is made for that post.  Two
\* runs on the same endpoint data therefore select the same user and post.
C14_SelectionDetermined ==
  /\ \A e \in At("userSelected") : \E u \in Of("users") :
       /\ Answered(u) /\ ~AnsweredEmpty(u)
       /\ trace[e].arg = UserOf(requests[u].body.items[1])
  /\ \A p \in Of("posts") : \E e \in At("userSelected") :
       /\ requests[p].user = trace[e].arg
       /\ requests[p].url = PostsUrl(trace[e].arg.id)
  /\ \A e \in At("postSelected") : \E p \in Of("posts") :
       /\ Answered(p) /\ ~AnsweredEmpty(p)
       /\ trace[e].arg = PostOf(requests[p].body.items[1])
  /\ \A c \in Of("comments") : \E e \in At("postSelected") :
       /\ requests[c].post = trace[e].arg
       /\ requests[c].url = CommentsUrl(trace[e].arg.id)
  /\ Count("userSelected") <= 1 /\ Count("postSelected") <= 1

\* A user and a post were selected from arrays whose elements differ.
C14_Witness ==
  /\ Count("postSelected") = 1
  /\ \E u \in Of("users") : \E p \in Of("posts") :
       /\ Len(requests[u].body.items) = 2
       /\ requests[u].body.items[1].id # requests[u].body.items[2].id
       /\ Answered(p)
       /\ Len(requests[p].body.items) = 2
       /\ requests[p].body.items[1].id # requests[p].body.items[2].id

-----------------------------------------------------------------------------
\* What went into a checkpoint is what came out of it: the counts printed
\* are the lengths of the payloads, the user printed is element 0 of the
\* users array and the user of the posts request, the post printed is
\* element 0 of the posts array and the post of the comments request, and
\* the comments request still carries the user of its posts request.
TapsPassValues ==
  /\ \A e \in At("userCount") : \E u \in Of("users") :
       Answered(u) /\ trace[e].arg = Len(requests[u].body.items)
  /\ \A e \in At("userSelected") :
       /\ \E u \in Of("users") :
            Answered(u) /\ ~AnsweredEmpty(u)
            /\ trace[e].arg.id = requests[u].body.items[1].id
       /\ \A p \in Of("posts") : requests[p].user = trace[e].arg
  /\ \A e \in At("postCount") : \E p \in Of("posts") :
       Answered(p) /\ trace[e].arg = Len(requests[p].body.items)
  /\ \A e \in At("postSelected") :
       /\ \E p \in Of("posts") :
            Answered(p) /\ ~AnsweredEmpty(p)
            /\ trace[e].arg.id = requests[p].body.items[1].id
       /\ \A c \in Of("comments") :
            /\ requests[c].post = trace[e].arg
            /\ \A p \in Of("posts") : requests[c].user = requests[p].user

\* C15 as stated: the checkpoints pass their values on unchanged and no
\* checkpoint fails the pipeline: the no-users error, which only the
\* selected-user tap throws, is never reported.
C15_TapsNeverFail ==
  /\ TapsPassValues
  /\ NoUsersError \notin ReportedErrors

\* C15, amended: the checkpoints pass their values on unchanged, and the
\* only checkpoint that fails the pipeline is the selected-user tap, which
\* throws the no-users error exactly when the users array is empty.
C15_TapsObserve ==
  /\ TapsPassValues
  /\ NoUsersError \in ReportedErrors <=> \E u \in Of("users") : AnsweredEmpty(u)
  /\ \A err \in ReportedErrors :
       err # NoUsersError => \E i \in DOMAIN requests : Failed(i)

\* All four checkpoints were passed, the first with two users.
C15_Witness ==
  /\ Count("postSelected") = 1
  /\ \E e \in At("userCount") : trace[e].arg = 2
  /\ Of("comments") # {}

-----------------------------------------------------------------------------
\* The comments request i has failed: in the transport, by its status, or
\* by a payload that cannot be decoded or is no array.
CommentsFailed(i) ==
  requests[i].url.ep = "comments" /\
  (HttpFailed(i) \/ TransportFailed(i) \/ Undecodable(i))

\* C16: when the comments request has failed, the subscriber got null and no
\* result, and the four checkpoint lines printed for the first two stages
\* are still there, before the error message.
C16_Stage3Failure ==
  \A i \in DOMAIN requests :
    CommentsFailed(i) =>
      /\ EmptyOutcome
      /\ Results = {}
      /\ Count("summary") = 0
      /\ Notifications = Checkpoints \o <<"error", "finalize">>

\* The comments endpoint answered 500.
C16_Witness ==
  \E i \in DOMAIN requests : CommentsFailed(i) /\ requests[i].status = 500

\* C17: each endpoint is requested at most once, so a run issues at most
\* three requests, and once an error was reported the run issued no request
\* after the one that failed.
C17_NoRetries ==
  /\ \A ep \in {"users", "posts", "comments"} : Cardinality(Of(ep)) <= 1
  /\ Len(requests) <= 3
  /\ \A i \in DOMAIN requests :
       (HttpFailed(i) \/ TransportFailed(i) \/ Undecodable(i)) =>
         i = Len(requests)
  /\ \A e \in At("error") : \A q \in At("request") : q < e

\* The posts request failed in the transport and the run has ended.
C17_Witness ==
  /\ closed
  /\ \E i \in Of("posts") : TransportFailed(i)

\* C18: a run that has ended has printed either the error message, and then
\* the subscriber got null and no summary was printed, or the summary, and
\* then no error message was printed; never both, and never neither.
C18_OneTerminalReport ==
  /\ Count("error") + Count("summary") <= 1
  /\ closed => Count("error") + Count("summary") = 1
  /\ Count("error") = 1 => EmptyOutcome /\ Count("summary") = 0
  /\ Count("summary") = 1 =>
       Count("error") = 0 /\ Len(delivered) = 1 /\ Results = {1}

\* A run has ended with the summary of a result without comments.
C18_Witness ==
  /\ closed
  /\ \E e \in At("summary") : trace[e].arg.count = 0

\* C19: when the users endpoint answered with an empty array, the users
\* request is the only request of the run and no user was printed as
\* selected.
C19_EmptyUsersStopsEarly ==
  (\E u \in Of("users") : AnsweredEmpty(u)) =>
    /\ Len(requests) = 1
    /\ Of("posts") = {} /\ Of("comments") = {}
    /\ Count("userSelected") = 0

\* The users endpoint answered with an empty array and the count was printed.
C19_Witness ==
  /\ \E u \in Of("users") : AnsweredEmpty(u)
  /\ \E e \in At("userCount") : trace[e].arg = 0

\* C20: when the comments endpoint answered with an empty array, the
\* subscriber got one result, with an empty comments sequence, no error
\* message was printed and finalize ran once.
C20_EmptyComments ==
  \A c \in Of("comments") :
    AnsweredEmpty(c) =>
      /\ Len(delivered) = 1
      /\ ~delivered[1].isNull
      /\ delivered[1].comments = <<>>
      /\ delivered[1].user = requests[c].user
      /\ delivered[1].post = requests[c].post
      /\ Count("error") = 0
      /\ Count("finalize") = 1

\* The comments endpoint answered with an empty array.
C20_Witness ==
  /\ \E c \in Of("comments") : AnsweredEmpty(c)
  /\ Count("summary") = 1

=============================================================================
